---------------------------- MODULE Spec2Model ----------------------------
(***************************************************************************)
(* Interaction/state layer of the immediate-mode GUI toolkit: the widget   *)
(* identity store generated by widget_fns! (macros.rs), the Toggle state   *)
(* machine (toggle.rs) and the TextBox state machine (text_box.rs).        *)
(*                                                                         *)
(* Text is a sequence of one-byte characters, so String::len() and the     *)
(* number of chars coincide and Len models both.  Pixel coordinates are    *)
(* integers; the one place where the code halves a width (closest_idx)     *)
(* is computed on doubled coordinates.                                     *)
(***************************************************************************)
EXTENDS Integers, Sequences, FiniteSets, TLC

VARIABLES
    widgets,    \* Ui's store: UIID -> Widget (state persisted between frames)
    places,     \* Ui's store: UIID -> last placement written by set_place
    text,       \* the caller-owned String the TextBox edits (&'a mut String)
    panicked,   \* "no", or the reason the program stopped with panic!
    obs,        \* what the last draw call read, computed and called back
    gesture     \* bookkeeping of the gesture in progress: the press of the
                \* observed toggle, the round trip typed into the text box

vars == <<widgets, places, text, panicked, obs, gesture>>

----------------------------------------------------------------------------
(* Bounds of the model *)

\* number of widget identifiers in use
MaxUiid == 2

UIIDs == 1..MaxUiid

----------------------------------------------------------------------------
(* widget.rs / ui.rs: the store behind widget_fns! *)

NoWidget == [kind |-> "NoWidget"]

NoPlace == [placed |-> FALSE]

ToggleWidget(state) == [kind |-> "Toggle", state |-> state]

TextBoxWidget(state) == [kind |-> "TextBox", state |-> state]

\* Ui::get_widget(ui_id, default): the stored widget, created from the
\* default on the first lookup.  Returns the store after the lookup.
Ui_get_widget(ws, ui_id, default) ==
    IF ws[ui_id] = NoWidget THEN [ws EXCEPT ![ui_id] = default] ELSE ws

\* Widget::matches: same variant tag.
matches(state, new_state) == state.kind = new_state.kind

\* Ui::set_place(ui_id, pos, dim)
set_place(ps, ui_id, pos, dim) ==
    [ps EXCEPT ![ui_id] = [placed |-> TRUE, pos |-> pos, dim |-> dim]]

\* A get_state that hands out the default state on every call.
get_state_fresh(ws, ui_id, default) ==
    LET ws1 == Ui_get_widget(ws, ui_id, default)
    IN  IF ws1[ui_id].kind = default.kind
        THEN [ok |-> TRUE, widgets |-> ws1, state |-> default.state]
        ELSE [ok |-> FALSE, widgets |-> ws1]

\* A get_state that stores the default over a widget of another variant
\* before it panics.
get_state_overwrite(ws, ui_id, default) ==
    LET ws1 == Ui_get_widget(ws, ui_id, default)
    IN  IF ws1[ui_id].kind = default.kind
        THEN [ok |-> TRUE, widgets |-> ws1, state |-> ws1[ui_id].state]
        ELSE [ok |-> FALSE, widgets |-> [ws1 EXCEPT ![ui_id] = default]]

\* get_state: the state of the requested variant, or panic! on any other.
get_state(ws, ui_id, default) ==
    LET ws1 == Ui_get_widget(ws, ui_id, default)
    IN  IF ws1[ui_id].kind = default.kind
        THEN [ok |-> TRUE, widgets |-> ws1, state |-> ws1[ui_id].state]
        ELSE [ok |-> FALSE, widgets |-> ws1]

\* A set_state that stores without the variant check.
set_state_unchecked(ws, ui_id, default, new_state) ==
    LET ws1 == Ui_get_widget(ws, ui_id, default)
    IN  [ok |-> TRUE, widgets |-> [ws1 EXCEPT ![ui_id] = new_state]]

\* set_state: panic! unless the stored widget matches new_state, else store.
set_state(ws, ui_id, default, new_state) ==
    LET ws1 == Ui_get_widget(ws, ui_id, default)
    IN  IF ~matches(ws1[ui_id], new_state)
        THEN [ok |-> FALSE, widgets |-> ws1]
        ELSE [ok |-> TRUE, widgets |-> [ws1 EXCEPT ![ui_id] = new_state]]

\* rectangle::is_over(pos, mouse_pos, dim): axis-aligned containment, the
\* boundary counts as inside.
rectangle_is_over(pos, mouse_pos, dim) ==
    /\ mouse_pos[1] >= pos[1] /\ mouse_pos[1] <= pos[1] + dim[1]
    /\ mouse_pos[2] >= pos[2] /\ mouse_pos[2] <= pos[2] + dim[2]

----------------------------------------------------------------------------
(* toggle.rs *)

ToggleStates == {"Normal", "Highlighted", "Clicked"}

\* widget_fns!(Toggle, State, Widget::Toggle(State::Normal))
toggle_default == ToggleWidget("Normal")

\* Toggle::new: pos [0.0, 0.0], dim [64.0, 64.0]
TogglePos == <<0, 0>>
ToggleDimW == 64
ToggleDimH == 64
ToggleDim == <<ToggleDimW, ToggleDimH>>

\* State::as_rectangle_state of the toggle
toggle_as_rectangle_state(state) ==
    CASE state = "Normal" -> "Normal"
      [] state = "Highlighted" -> "Highlighted"
      [] state = "Clicked" -> "Clicked"

\* get_new_state with the first arm missing: a press always clicks.
toggle_get_new_state_press_clicks(is_over, prev, mouse) ==
    CASE is_over /\ mouse.left = "Down" -> "Clicked"
      [] is_over /\ mouse.left = "Up" -> "Highlighted"
      [] ~is_over /\ prev = "Clicked" /\ mouse.left = "Down" -> "Clicked"
      [] OTHER -> "Normal"

\* get_new_state without the arm that keeps a click while the pointer is
\* dragged off the toggle.
toggle_get_new_state_drop_click(is_over, prev, mouse) ==
    IF is_over /\ prev = "Normal" /\ mouse.left = "Down" THEN "Normal"
    ELSE IF is_over /\ mouse.left = "Down" THEN "Clicked"
    ELSE IF is_over /\ mouse.left = "Up" THEN "Highlighted"
    ELSE "Normal"

\* get_new_state: the match arms in source order (CASE with guards made
\* exclusive the way the first matching arm wins).
toggle_get_new_state(is_over, prev, mouse) ==
    IF is_over /\ prev = "Normal" /\ mouse.left = "Down" THEN "Normal"
    ELSE IF is_over /\ mouse.left = "Down" THEN "Clicked"
    ELSE IF is_over /\ mouse.left = "Up" THEN "Highlighted"
    ELSE IF ~is_over /\ prev = "Clicked" /\ mouse.left = "Down" THEN "Clicked"
    ELSE "Normal"

\* The callback decision of Toggle::draw taken on the new state alone.
toggle_callback_on_highlight(maybe_callback, is_over, state, new_state, value) ==
    IF maybe_callback = "Some" /\ is_over /\ new_state = "Highlighted"
    THEN [called |-> TRUE, arg |-> ~value]
    ELSE [called |-> FALSE]

\* The callback of Toggle::draw handed the value as it is.
toggle_callback_same_value(maybe_callback, is_over, state, new_state, value) ==
    IF maybe_callback = "Some"
       /\ <<is_over, state, new_state>> = <<TRUE, "Clicked", "Highlighted">>
    THEN [called |-> TRUE, arg |-> value]
    ELSE [called |-> FALSE]

\* The callback part of Toggle::draw: called with the inverted value on
\* (true, Clicked, Highlighted) when a callback is configured.
toggle_callback(maybe_callback, is_over, state, new_state, value) ==
    IF maybe_callback = "Some"
       /\ <<is_over, state, new_state>> = <<TRUE, "Clicked", "Highlighted">>
    THEN [called |-> TRUE, arg |-> (IF value THEN FALSE ELSE TRUE)]
    ELSE [called |-> FALSE]

\* Toggle::draw
ToggleDraw(ui_id, value, maybe_callback, mouse) ==
    /\ panicked = "no"
    /\ LET got == get_state(widgets, ui_id, toggle_default)
       IN  IF ~got.ok
           THEN /\ panicked' = "get_state"
                /\ widgets' = got.widgets
                /\ obs' = [kind |-> "Toggle", ui_id |-> ui_id, done |-> FALSE,
                           cb |-> [called |-> FALSE]]
                /\ UNCHANGED <<places, text>>
           ELSE LET state == got.state
                    is_over == rectangle_is_over(TogglePos, mouse.pos, ToggleDim)
                    new_state == toggle_get_new_state(is_over, state, mouse)
                    rect_state == toggle_as_rectangle_state(new_state)
                    cb == toggle_callback(maybe_callback, is_over, state,
                                          new_state, value)
                    res == set_state(got.widgets, ui_id, toggle_default,
                                     ToggleWidget(new_state))
                IN  /\ obs' = [kind |-> "Toggle", ui_id |-> ui_id, done |-> res.ok,
                               is_over |-> is_over, prev |-> state,
                               mouse |-> mouse, new_state |-> new_state,
                               rect_state |-> rect_state, value |-> value,
                               maybe_callback |-> maybe_callback, cb |-> cb]
                    /\ widgets' = res.widgets
                    /\ IF res.ok
                       THEN /\ places' = set_place(places, ui_id, TogglePos, ToggleDim)
                            /\ panicked' = panicked
                       ELSE /\ places' = places
                            /\ panicked' = "set_state"
                    /\ UNCHANGED text

----------------------------------------------------------------------------
(* Glyph metrics: the CharacterCache collaborator behind ui.get_character *)

\* the characters of the modelled texts; "z" is a glyph without advance
Chars == {"a", "b", "z"}

\* advance width of a glyph at the default font size
GlyphWidth(ch) == IF ch = "a" THEN 1 ELSE IF ch = "b" THEN 2 ELSE 0

\* TextBox::new: font_size 24
FontSizeDefault == 24

\* ui.get_character(font_size, ch).width() / ui.get_character_w: the advance
\* scales with the font size
get_character_w(font_size, ch) == (GlyphWidth(ch) * font_size) \div FontSizeDefault

RECURSIVE SumWidths(_, _)
\* the sum of the advances of the characters of t
SumWidths(font_size, t) ==
    IF t = <<>> THEN 0
    ELSE get_character_w(font_size, Head(t)) + SumWidths(font_size, Tail(t))

\* label::width: the advances of the characters, summed
label_width(font_size, t) == SumWidths(font_size, t)

----------------------------------------------------------------------------
(* text_box.rs *)

\* static TEXT_PADDING: f64 = 5f64
TEXT_PADDING == 5

\* usize, at a width that keeps the wrapped values small
UsizeBits == 16
UsizeModulus == 2 ^ UsizeBits

Min(a, b) == IF a < b THEN a ELSE b

\* Selection::from_index
from_index(idx) == [anchor |-> "Start", start |-> idx, end |-> idx]

\* Selection::from_range that never swaps its arguments.
from_range_unordered(start, end) == [anchor |-> "Start", start |-> start, end |-> end]

\* Selection::from_range
from_range(start, end) ==
    IF start < end
    THEN [anchor |-> "Start", start |-> start, end |-> end]
    ELSE [anchor |-> "End", start |-> end, end |-> start]

Capturing(selection) == [tag |-> "Capturing", sel |-> selection]

Uncaptured(u) == [tag |-> "Uncaptured", u |-> u]

\* Element
Char(idx) == [tag |-> "Char", idx |-> idx]
Nill == [tag |-> "Nill"]
Rect == [tag |-> "Rect"]

\* widget_fns!(TextBox, State, Widget::TextBox(State::Uncaptured(Uncaptured::Normal)))
text_box_default == TextBoxWidget(Uncaptured("Normal"))

\* a projection that draws a capturing text box in the active state
text_box_as_rectangle_state_active(state) ==
    IF state.tag = "Capturing" THEN "Clicked"
    ELSE IF state.u = "Highlighted" THEN "Highlighted" ELSE "Normal"

\* State::as_rectangle_state of the text box
text_box_as_rectangle_state(state) ==
    IF state.tag = "Capturing" THEN "Normal"
    ELSE IF state.u = "Highlighted" THEN "Highlighted" ELSE "Normal"

\* cursor_position: the clamped index and the x of its left edge
cursor_position(idx, text_x, font_size, t) ==
    IF idx = 0 THEN <<0, text_x>>
    ELSE LET i == IF idx > Len(t) THEN Len(t) ELSE idx
         IN  <<i, text_x + SumWidths(font_size, SubSeq(t, 1, i))>>

RECURSIVE closest_idx_loop_edge(_, _, _, _, _, _)
\* The for loop of closest_idx comparing with the right edge of the
\* character instead of its midpoint.
closest_idx_loop_edge(i, prev_x, left2, mouse_x, font_size, t) ==
    IF i > Len(t) THEN <<>>
    ELSE LET char_w == get_character_w(font_size, t[i])
             right2 == 2 * prev_x + 2 * char_w
         IN  IF 2 * mouse_x > left2 /\ 2 * mouse_x <= right2
             THEN <<i - 1, prev_x>>
             ELSE closest_idx_loop_edge(i + 1, prev_x + char_w, right2, mouse_x,
                                        font_size, t)

RECURSIVE closest_idx_loop(_, _, _, _, _, _)
\* the for loop of closest_idx at character i (1-based); prev_x is the left
\* edge of the character, left2 and the right edge right2 are doubled so
\* that prev_x + char_w / 2.0 stays an integer.  None left: <<>>.
closest_idx_loop(i, prev_x, left2, mouse_x, font_size, t) ==
    IF i > Len(t) THEN <<>>
    ELSE LET char_w == get_character_w(font_size, t[i])
             right2 == 2 * prev_x + char_w
         IN  IF 2 * mouse_x > left2 /\ 2 * mouse_x <= right2
             THEN <<i - 1, prev_x>>
             ELSE closest_idx_loop(i + 1, prev_x + char_w, right2, mouse_x,
                                   font_size, t)

\* the last line of closest_idx, reached when the loop returned nothing
closest_idx_end(hit, text_x, text_w, t) ==
    IF hit # <<>> THEN hit ELSE <<Len(t), text_x + text_w>>

\* closest_idx without the early return for a pointer left of the text.
closest_idx_no_left(mouse_pos, text_x, text_w, font_size, t) ==
    closest_idx_end(
        closest_idx_loop(1, text_x, 2 * text_x, mouse_pos[1], font_size, t),
        text_x, text_w, t)

\* closest_idx
closest_idx(mouse_pos, text_x, text_w, font_size, t) ==
    IF mouse_pos[1] <= text_x THEN <<0, text_x>>
    ELSE closest_idx_end(
             closest_idx_loop(1, text_x, 2 * text_x, mouse_pos[1], font_size, t),
             text_x, text_w, t)

\* over_elem
over_elem(pos, mouse_pos, rect_dim, pad_pos, pad_dim, text_pos, text_w, font_size, t) ==
    IF ~rectangle_is_over(pos, mouse_pos, rect_dim) THEN Nill
    ELSE IF ~rectangle_is_over(pad_pos, mouse_pos, pad_dim) THEN Rect
    ELSE Char(closest_idx(mouse_pos, text_pos[1], text_w, font_size, t)[1])

\* get_new_state of the text box that lets an unhighlighted box capture.
text_box_get_new_state_eager(elem, prev_state, mouse) ==
    IF prev_state.tag = "Uncaptured" /\ mouse.left = "Down" /\ elem.tag = "Char"
    THEN Capturing(from_index(elem.idx))
    ELSE IF prev_state.tag = "Capturing" /\ mouse.left = "Up"
    THEN Capturing([prev_state.sel EXCEPT !.anchor = "None"])
    ELSE prev_state

\* A get_new_state that ends the capture whenever the button is down
\* outside the control.
text_box_get_new_state_drop_outside(elem, prev_state, mouse) ==
    IF prev_state.tag = "Capturing"
    THEN LET prev == prev_state.sel
         IN  IF mouse.left = "Down"
             THEN CASE elem.tag = "Nill" ->
                         Uncaptured("Normal")
                    [] elem.tag = "Rect" ->
                         IF prev.anchor = "None" THEN Capturing(from_index(0))
                         ELSE prev_state
                    [] elem.tag = "Char" ->
                         CASE prev.anchor = "None" ->
                                  Capturing(from_index(elem.idx))
                           [] prev.anchor = "Start" ->
                                  Capturing(from_range(prev.start, elem.idx))
                           [] prev.anchor = "End" ->
                                  Capturing(from_range(prev.end, elem.idx))
             ELSE Capturing([prev EXCEPT !.anchor = "None"])
    ELSE LET prev == prev_state.u
         IN  IF mouse.left = "Down"
             THEN CASE elem.tag = "Nill" -> Uncaptured("Normal")
                    [] elem.tag = "Rect" ->
                         IF prev = "Normal" THEN prev_state
                         ELSE Capturing(from_index(0))
                    [] elem.tag = "Char" ->
                         IF prev = "Normal" THEN prev_state
                         ELSE Capturing(from_index(elem.idx))
             ELSE CASE elem.tag = "Nill" -> Uncaptured("Normal")
                    [] OTHER ->
                         IF prev = "Normal" THEN Uncaptured("Highlighted")
                         ELSE prev_state

\* A get_new_state that drags from the start of the selection whatever
\* the anchor.
text_box_get_new_state_drag_start(elem, prev_state, mouse) ==
    IF prev_state.tag = "Capturing"
    THEN LET prev == prev_state.sel
         IN  IF mouse.left = "Down"
             THEN CASE elem.tag = "Nill" ->
                         IF prev.anchor = "None" THEN Uncaptured("Normal")
                         ELSE prev_state
                    [] elem.tag = "Rect" ->
                         IF prev.anchor = "None" THEN Capturing(from_index(0))
                         ELSE prev_state
                    [] elem.tag = "Char" ->
                         CASE prev.anchor = "None" ->
                                  Capturing(from_index(elem.idx))
                           [] prev.anchor = "Start" ->
                                  Capturing(from_range(prev.start, elem.idx))
                           [] prev.anchor = "End" ->
                                  Capturing(from_range(prev.start, elem.idx))
             ELSE Capturing([prev EXCEPT !.anchor = "None"])
    ELSE LET prev == prev_state.u
         IN  IF mouse.left = "Down"
             THEN CASE elem.tag = "Nill" -> Uncaptured("Normal")
                    [] elem.tag = "Rect" ->
                         IF prev = "Normal" THEN prev_state
                         ELSE Capturing(from_index(0))
                    [] elem.tag = "Char" ->
                         IF prev = "Normal" THEN prev_state
                         ELSE Capturing(from_index(elem.idx))
             ELSE CASE elem.tag = "Nill" -> Uncaptured("Normal")
                    [] OTHER ->
                         IF prev = "Normal" THEN Uncaptured("Highlighted")
                         ELSE prev_state

\* get_new_state of the text box
text_box_get_new_state(elem, prev_state, mouse) ==
    IF prev_state.tag = "Capturing"
    THEN LET prev == prev_state.sel
         IN  IF mouse.left = "Down"
             THEN CASE elem.tag = "Nill" ->
                         IF prev.anchor = "None" THEN Uncaptured("Normal")
                         ELSE prev_state
                    [] elem.tag = "Rect" ->
                         IF prev.anchor = "None" THEN Capturing(from_index(0))
                         ELSE prev_state
                    [] elem.tag = "Char" ->
                         CASE prev.anchor = "None" ->
                                  Capturing(from_index(elem.idx))
                           [] prev.anchor = "Start" ->
                                  Capturing(from_range(prev.start, elem.idx))
                           [] prev.anchor = "End" ->
                                  Capturing(from_range(prev.end, elem.idx))
             ELSE Capturing([prev EXCEPT !.anchor = "None"])
    ELSE LET prev == prev_state.u
         IN  IF mouse.left = "Down"
             THEN CASE elem.tag = "Nill" -> Uncaptured("Normal")
                    [] elem.tag = "Rect" ->
                         IF prev = "Normal" THEN prev_state
                         ELSE Capturing(from_index(0))
                    [] elem.tag = "Char" ->
                         IF prev = "Normal" THEN prev_state
                         ELSE Capturing(from_index(elem.idx))
             ELSE CASE elem.tag = "Nill" -> Uncaptured("Normal")
                    [] OTHER ->
                         IF prev = "Normal" THEN Uncaptured("Highlighted")
                         ELSE prev_state

\* &text[..idx] ++ t ++ &text[idx..]
Splice(t, idx, fragment) ==
    SubSeq(t, 1, idx) \o fragment \o SubSeq(t, idx + 1, Len(t))

\* The splice of the "entered text" loop: format!("{}{}{}", &text[..idx], t,
\* &text[idx..]), at the index the frame began with.
InsertAt(t, idx, new_idx, fragment) == Splice(t, idx, fragment)

RECURSIVE EnteredText_unbounded(_, _, _, _, _)
\* The entered text loop without the width test: every fragment is spliced.
EnteredText_unbounded(entered, st, idx, font_size, limit) ==
    IF entered = <<>> \/ st.panic # "no" THEN st
    ELSE EnteredText_unbounded(Tail(entered),
             [text |-> InsertAt(st.text, idx, st.new_idx, Head(entered)),
              new_idx |-> (st.new_idx + Len(Head(entered))) % UsizeModulus,
              new_cursor_x |-> st.new_cursor_x
                                  + SumWidths(font_size, Head(entered)),
              panic |-> "no", calls |-> st.calls],
             idx, font_size, limit)

RECURSIVE EnteredText(_, _, _, _, _)
\* "Check for entered text": the for loop over ui.get_entered_text().  st is
\* the running [text, new_idx, new_cursor_x, panic, calls], calls being the
\* buffers the callback has been invoked with; idx is the caret the frame
\* began with; limit is pad_pos[0] + pad_dim[0] - TEXT_PADDING.
EnteredText(entered, st, idx, font_size, limit) ==
    IF entered = <<>> \/ st.panic # "no" THEN st
    ELSE LET t == Head(entered)
             entered_text_width == SumWidths(font_size, t)
         IN  IF st.new_cursor_x + entered_text_width < limit
             THEN IF idx > Len(st.text)
                  THEN [st EXCEPT !.panic = "slice"]
                  ELSE EnteredText(Tail(entered),
                          [text |-> InsertAt(st.text, idx, st.new_idx, t),
                           new_idx |-> (st.new_idx + Len(t)) % UsizeModulus,
                           new_cursor_x |-> st.new_cursor_x + entered_text_width,
                           panic |-> "no", calls |-> st.calls],
                          idx, font_size, limit)
             ELSE st

\* The callback of TextBox::draw, FnMut(&mut String): "None" when no
\* callback is configured, else what the configured callback does to the
\* buffer.
Callbacks == {"None", "Keep", "Clear"}

CallbackEdit(maybe_callback, t) == IF maybe_callback = "Clear" THEN <<>> ELSE t

\* The "match *key" with the commit of the Return arm run for every key.
PressedKey_commit_any(key, st, idx, font_size, text_x, maybe_callback, overflow_checks) ==
    IF Len(st.text) > 0 /\ maybe_callback # "None"
    THEN [text |-> CallbackEdit(maybe_callback, st.text),
          new_idx |-> Min(st.new_idx, Len(CallbackEdit(maybe_callback, st.text))),
          new_cursor_x |-> text_x
              + SumWidths(font_size, CallbackEdit(maybe_callback, st.text)),
          panic |-> "no", calls |-> Append(st.calls, st.text)]
    ELSE st

\* One arm of "match *key" in "Check for control keys".  char_at panics on
\* an index outside the text; new_idx -= 1 and new_idx += 1 panic when
\* overflow checks are compiled in and wrap otherwise.
PressedKey(key, st, idx, font_size, text_x, maybe_callback, overflow_checks) ==
    CASE key = "Backspace" ->
            IF Len(st.text) > 0 /\ Len(st.text) >= idx /\ idx > 0
            THEN LET rem_idx == idx - 1
                 IN  [text |-> SubSeq(st.text, 1, rem_idx)
                                 \o SubSeq(st.text, idx + 1, Len(st.text)),
                      new_idx |-> rem_idx,
                      new_cursor_x |-> st.new_cursor_x
                          - get_character_w(font_size, st.text[rem_idx + 1]),
                      panic |-> "no", calls |-> st.calls]
            ELSE st
      [] key = "Left" ->
            IF idx > 0
            THEN IF idx - 1 >= Len(st.text)
                 THEN [st EXCEPT !.panic = "char_at"]
                 ELSE IF st.new_idx = 0 /\ overflow_checks
                 THEN [st EXCEPT !.panic = "overflow"]
                 ELSE [st EXCEPT
                         !.new_cursor_x = @ - get_character_w(font_size, st.text[idx]),
                         !.new_idx = (@ + UsizeModulus - 1) % UsizeModulus]
            ELSE st
      [] key = "Right" ->
            IF Len(st.text) > idx
            THEN IF st.new_idx = UsizeModulus - 1 /\ overflow_checks
                 THEN [st EXCEPT !.panic = "overflow"]
                 ELSE [st EXCEPT
                         !.new_cursor_x = @ + get_character_w(font_size, st.text[idx + 1]),
                         !.new_idx = (@ + 1) % UsizeModulus]
            ELSE st
      [] key = "Return" ->
            IF Len(st.text) > 0 /\ maybe_callback # "None"
            THEN LET t == CallbackEdit(maybe_callback, st.text)
                 IN  [text |-> t,
                      new_idx |-> Min(st.new_idx, Len(t)),
                      new_cursor_x |-> text_x + SumWidths(font_size, t),
                      panic |-> "no", calls |-> Append(st.calls, st.text)]
            ELSE st
      [] OTHER -> st

RECURSIVE PressedKeys_last_first(_, _, _, _, _, _, _)
\* The loop over the pressed keys run from the last key to the first.
PressedKeys_last_first(keys, st, idx, font_size, text_x, maybe_callback, overflow_checks) ==
    IF keys = <<>> \/ st.panic # "no" THEN st
    ELSE PressedKeys_last_first(SubSeq(keys, 1, Len(keys) - 1),
                     PressedKey(keys[Len(keys)], st, idx, font_size, text_x,
                                maybe_callback, overflow_checks),
                     idx, font_size, text_x, maybe_callback, overflow_checks)

RECURSIVE PressedKeys(_, _, _, _, _, _, _)
\* "Check for control keys": the for loop over ui.get_pressed_keys()
PressedKeys(keys, st, idx, font_size, text_x, maybe_callback, overflow_checks) ==
    IF keys = <<>> \/ st.panic # "no" THEN st
    ELSE PressedKeys(Tail(keys),
                     PressedKey(Head(keys), st, idx, font_size, text_x,
                                maybe_callback, overflow_checks),
                     idx, font_size, text_x, maybe_callback, overflow_checks)

\* TextBox::new: pos [0.0, 0.0]
TextBoxPos == <<0, 0>>

\* the frame width of the text box (frame(), or the theme's)
TextBoxFrameW == 1

\* the pixels between the two text paddings of the text box
TextRoom == 4

\* the width and height given to the text box with dim()
TextBoxDimW == 2 * TextBoxFrameW + 2 * TEXT_PADDING + TextRoom
TextBoxDimH == 2 * TextBoxFrameW + 1
TextBoxDim == <<TextBoxDimW, TextBoxDimH>>

\* The keyboard part of TextBox::draw, entered when the new state is a
\* caret: cp is the (idx, cursor_x) cursor_position gave, st the text and
\* caret after the entered text and the pressed keys.
TextBoxAfterKeys(elem, new_state, cp, st) ==
    [elem |-> elem, new_state |-> new_state,
     rect_state |-> text_box_as_rectangle_state(new_state),
     caret |-> TRUE, idx |-> cp[1], cursor_x |-> cp[2],
     text |-> st.text, panic |-> st.panic, calls |-> st.calls,
     final_state |-> Capturing([new_state.sel EXCEPT
                         !.start = st.new_idx, !.end = st.new_idx])]

TextBoxKeyboard(elem, new_state, cp, t, cfg, in, text_x, limit) ==
    TextBoxAfterKeys(elem, new_state, cp,
        PressedKeys(in.keys,
            EnteredText(in.entered,
                [text |-> t, new_idx |-> cp[1], new_cursor_x |-> cp[2],
                 panic |-> "no", calls |-> <<>>],
                cp[1], cfg.font_size, limit),
            cp[1], cfg.font_size, text_x, cfg.maybe_callback,
            in.overflow_checks))

\* A draw that runs the keyboard processing in every Capturing state.
TextBoxAfterNewState_any_selection(elem, new_state, t, cfg, in, text_x, limit) ==
    IF new_state.tag = "Capturing"
    THEN TextBoxKeyboard(elem, new_state,
             cursor_position(new_state.sel.start, text_x, cfg.font_size, t),
             t, cfg, in, text_x, limit)
    ELSE [elem |-> elem, new_state |-> new_state,
          rect_state |-> text_box_as_rectangle_state(new_state),
          caret |-> FALSE, text |-> t, panic |-> "no", calls |-> <<>>,
          final_state |-> new_state]

\* TextBox::draw once get_new_state has given new_state
TextBoxAfterNewState(elem, new_state, t, cfg, in, text_x, limit) ==
    IF new_state.tag = "Capturing" /\ new_state.sel.start = new_state.sel.end
    THEN TextBoxKeyboard(elem, new_state,
             cursor_position(new_state.sel.start, text_x, cfg.font_size, t),
             t, cfg, in, text_x, limit)
    ELSE [elem |-> elem, new_state |-> new_state,
          rect_state |-> text_box_as_rectangle_state(new_state),
          caret |-> FALSE, text |-> t, panic |-> "no", calls |-> <<>>,
          final_state |-> new_state]

\* TextBox::draw once over_elem has given the hit element
TextBoxAfterElem(elem, state, t, cfg, in, text_x, limit) ==
    TextBoxAfterNewState(elem, text_box_get_new_state(elem, state, in.mouse),
                         t, cfg, in, text_x, limit)

\* The geometry of TextBox::draw: pad_pos, pad_dim and text_pos
TextBoxGeometry(frame_w, font_size) ==
    [pad_pos |-> <<TextBoxPos[1] + frame_w, TextBoxPos[2] + frame_w>>,
     pad_dim |-> <<TextBoxDim[1] - frame_w * 2, TextBoxDim[2] - frame_w * 2>>,
     text_pos |-> <<TextBoxPos[1] + frame_w + TEXT_PADDING,
                    TextBoxPos[2] + frame_w
                        + (TextBoxDim[2] - frame_w * 2 - font_size) \div 2>>]

TextBoxWithGeometry(g, state, t, cfg, in) ==
    TextBoxAfterElem(
        over_elem(TextBoxPos, in.mouse.pos, TextBoxDim, g.pad_pos, g.pad_dim,
                  g.text_pos, label_width(cfg.font_size, t), cfg.font_size, t),
        state, t, cfg, in, g.text_pos[1],
        g.pad_pos[1] + g.pad_dim[1] - TEXT_PADDING)

\* TextBox::draw from the stored state to the state handed to set_state.
\* in = [mouse, keys, entered, overflow_checks]; cfg = [frame_w, font_size,
\* maybe_callback].  Returns the hit element, the state get_new_state gave,
\* the caret the keyboard processing began with, the state and text after
\* the keyboard processing, the buffers the callback was invoked with, and
\* the panic that ended the frame ("no": none).
TextBoxFrameResult(state, t, cfg, in) ==
    TextBoxWithGeometry(TextBoxGeometry(cfg.frame_w, cfg.font_size),
                        state, t, cfg, in)

\* TextBox::draw
TextBoxDraw(ui_id, cfg, in) ==
    /\ panicked = "no"
    /\ \E got \in {get_state(widgets, ui_id, text_box_default)} :
         IF ~got.ok
         THEN /\ panicked' = "get_state"
              /\ widgets' = got.widgets
              /\ UNCHANGED <<places, text>>
         ELSE \E r \in {TextBoxFrameResult(got.state, text, cfg, in)} :
                /\ text' = r.text
                /\ IF r.panic # "no"
                   THEN /\ panicked' = r.panic
                        /\ widgets' = got.widgets
                        /\ places' = places
                   ELSE \E res \in {set_state(got.widgets, ui_id, text_box_default,
                                              TextBoxWidget(r.final_state))} :
                          /\ widgets' = res.widgets
                          /\ IF res.ok
                             THEN /\ places' = set_place(places, ui_id,
                                                         TextBoxPos, TextBoxDim)
                                  /\ panicked' = panicked
                             ELSE /\ places' = places
                                  /\ panicked' = "set_state"

----------------------------------------------------------------------------
(* Specification of one toggle drawn frame after frame *)

\* mouse positions of the toggle frames: outside left, the two corners of
\* the boundary, outside below
ToggleMousePos == {<<-1, 0>>, <<0, 0>>, <<ToggleDimW, ToggleDimH>>, <<30, ToggleDimH + 1>>}

ButtonStates == {"Down", "Up"}

ToggleMice == [pos : ToggleMousePos, left : ButtonStates]

\* the identifier of the observed toggle
ToggleId == 1

NoGesture == [phase |-> "idle"]

\* Bookkeeping of the press in progress: where it began, the state stored
\* when it began, the callbacks invoked since, and where it was released.
\* The button is Up before the first frame.
TrackGesture(g, prev, is_over, left, called) ==
    LET n == IF called THEN 1 ELSE 0
    IN  IF left = "Down"
        THEN IF g.phase = "held"
             THEN [g EXCEPT !.calls = @ + n]
             ELSE [phase |-> "held", press_over |-> is_over, press_prev |-> prev,
                   calls |-> n]
        ELSE IF g.phase = "held"
             THEN [phase |-> "released", press_over |-> g.press_over,
                   press_prev |-> g.press_prev, calls |-> g.calls + n,
                   release_over |-> is_over]
             ELSE NoGesture

ToggleFrame ==
    \E value \in BOOLEAN, maybe_callback \in {"None", "Some"}, mouse \in ToggleMice :
        /\ ToggleDraw(ToggleId, value, maybe_callback, mouse)
        /\ gesture' = IF obs'.done
                      THEN TrackGesture(gesture, obs'.prev, obs'.is_over,
                                        obs'.mouse.left, obs'.cb.called)
                      ELSE gesture

Init ==
    /\ widgets = [i \in UIIDs |-> NoWidget]
    /\ places = [i \in UIIDs |-> NoPlace]
    /\ text = <<>>
    /\ panicked = "no"
    /\ obs = [kind |-> "None"]
    /\ gesture = NoGesture

NextToggle == ToggleFrame

SpecToggle == Init /\ [][NextToggle]_vars

----------------------------------------------------------------------------
(* Specification of one text box drawn frame after frame *)

\* the identifier of the observed text box
TextBoxId == 2

\* most keys pressed in one frame
MaxKeys == 2

\* longest text a frame is drawn with
MaxTextLen == 2

Keys == {"Backspace", "Left", "Right", "Return"}

\* the key presses of one frame, as tuples
KeySeqsUpTo(n) == UNION {[1..k -> Keys] : k \in 0..n}

Range(f) == {f[i] : i \in DOMAIN f}

\* the fragments entered in one frame: none, one character, one fragment
\* of two characters, two fragments
EnteredTexts ==
    {<<>>, <<<<"a">>>>, <<<<"b">>>>, <<<<"a", "b">>>>, <<<<"a">>, <<"b">>>>,
     <<<<"b">>, <<"b">>>>}

RECURSIVE Flatten(_)
Flatten(ss) == IF ss = <<>> THEN <<>> ELSE Head(ss) \o Flatten(Tail(ss))

TextX == TextBoxFrameW + TEXT_PADDING

\* mouse positions of the text box frames: outside, on the frame, and over
\* the text area from the text start on
TextBoxMousePos ==
    {<<-1, TextBoxFrameW>>, <<0, TextBoxFrameW>>}
        \cup {<<x, TextBoxFrameW>> : x \in TextX..(TextX + TextRoom)}

TextBoxMice == [pos : TextBoxMousePos, left : ButtonStates]

\* The keyboard side of a frame: the keys pressed, the text entered, the
\* callback configured and whether the build checks integer overflow.  A
\* callback is only read by Return and new_idx only overflows at a Left
\* that follows another key, so the combinations that cannot differ are
\* enumerated once.
Keyboards(keySeqs, enteredTexts) ==
    {kb \in [keys : keySeqs, entered : enteredTexts,
             maybe_callback : Callbacks, overflow_checks : BOOLEAN] :
        /\ "Return" \notin Range(kb.keys) => kb.maybe_callback = "None"
        /\ kb.overflow_checks
             \/ \E i \in DOMAIN kb.keys : i > 1 /\ kb.keys[i] = "Left"}

TextBoxCfg(kb) ==
    [frame_w |-> TextBoxFrameW, font_size |-> FontSizeDefault,
     maybe_callback |-> kb.maybe_callback]

TextBoxInput(mouse, kb) ==
    [mouse |-> mouse, keys |-> kb.keys, entered |-> kb.entered,
     overflow_checks |-> kb.overflow_checks]

\* frames with several keys, or with entered text and at most one key
TextBoxKeyboards ==
    Keyboards(KeySeqsUpTo(MaxKeys), {<<>>})
        \cup Keyboards(KeySeqsUpTo(1), EnteredTexts)

\* a frame of the text box with pointer, keys and entered text; several
\* keys arrive in one frame only while the mouse button is up
TextBoxFrame ==
    \E mouse \in TextBoxMice, kb \in TextBoxKeyboards :
        /\ Len(kb.keys) > 1 => mouse.left = "Up"
        /\ Len(text) <= MaxTextLen
        /\ TextBoxDraw(TextBoxId, TextBoxCfg(kb), TextBoxInput(mouse, kb))
        /\ obs' = [kind |-> "TextBox", done |-> panicked' = "no"]
        /\ UNCHANGED gesture

NextTextBox == TextBoxFrame

SpecTextBox == Init /\ [][NextTextBox]_vars

----------------------------------------------------------------------------
(* Specification of a toggle and a text box driven by the pointer *)

\* what a text box frame read and computed: the stored state, the hit
\* element, the button, what get_new_state and as_rectangle_state returned,
\* the state handed to set_state
PointerObs(state, r, mouse) ==
    [kind |-> "TextBox", done |-> r.panic = "no", prev |-> state,
     elem |-> r.elem, left |-> mouse.left, new_state |-> r.new_state,
     rect_state |-> r.rect_state, final_state |-> r.final_state]

\* at most one fragment of one character entered in a frame
OneCharTexts == {<<>>, <<<<"a">>>>, <<<<"b">>>>}

\* a frame of the text box with pointer and entered text, no keys
TextBoxPointerFrame ==
    \E mouse \in TextBoxMice, kb \in Keyboards({<<>>}, OneCharTexts) :
        /\ Len(text) <= MaxTextLen
        /\ TextBoxDraw(TextBoxId, TextBoxCfg(kb), TextBoxInput(mouse, kb))
        /\ \E got \in {get_state(widgets, TextBoxId, text_box_default)} :
              obs' = PointerObs(got.state,
                         TextBoxFrameResult(got.state, text, TextBoxCfg(kb),
                                            TextBoxInput(mouse, kb)),
                         mouse)
        /\ UNCHANGED gesture

\* a frame of a toggle that has no callback
TogglePointerFrame ==
    \E value \in BOOLEAN, mouse \in ToggleMice :
        /\ ToggleDraw(ToggleId, value, "None", mouse)
        /\ UNCHANGED gesture

NextWidgets == TextBoxPointerFrame \/ TogglePointerFrame

SpecWidgets == Init /\ [][NextWidgets]_vars

----------------------------------------------------------------------------
(* Specification of typing into one text box *)

\* what a typing frame began with and was given: the text and the caret
\* before the frame, the fragments entered, and whether the caret x plus
\* their widths stays below pad_pos[0] + pad_dim[0] - TEXT_PADDING
TypingObs(t, r, entered) ==
    IF r.caret
    THEN [kind |-> "Typing", done |-> r.panic = "no", caret |-> TRUE,
          text0 |-> t, idx |-> r.idx, cursor_x |-> r.cursor_x,
          entered |-> entered,
          fit |-> r.cursor_x + SumWidths(FontSizeDefault, Flatten(entered))
                      < TextBoxFrameW + (TextBoxDimW - 2 * TextBoxFrameW)
                            - TEXT_PADDING]
    ELSE [kind |-> "Typing", done |-> TRUE, caret |-> FALSE]

\* a frame of the text box with pointer and entered text, no keys
TypingFrame ==
    \E mouse \in TextBoxMice, kb \in Keyboards({<<>>}, EnteredTexts) :
        /\ Len(text) <= MaxTextLen
        /\ TextBoxDraw(TextBoxId, TextBoxCfg(kb), TextBoxInput(mouse, kb))
        /\ \E got \in {get_state(widgets, TextBoxId, text_box_default)} :
              obs' = TypingObs(text,
                         TextBoxFrameResult(got.state, text, TextBoxCfg(kb),
                                            TextBoxInput(mouse, kb)),
                         kb.entered)
        /\ UNCHANGED gesture

NextTyping == TypingFrame

SpecTyping == Init /\ [][NextTyping]_vars

----------------------------------------------------------------------------
(* Specification of typing a fragment into one text box and deleting it *)

\* the Backspace presses of one frame
BackspaceSeqs == {[i \in 1..k |-> "Backspace"] : k \in 0..MaxKeys}

\* at most one fragment entered in a frame
OneFragmentTexts == {<<>>, <<<<"a">>>>, <<<<"b">>>>, <<<<"a", "b">>>>}

\* Bookkeeping of a round trip: a frame that inserts a fragment at a caret
\* begins one, recording the text and the caret before it and the
\* Backspaces still owed; a frame that only presses Backspaces at the caret
\* the last frame left pays them; a frame that leaves text and caret alone
\* keeps it; any other frame abandons it.  stored is the state the frame
\* began with, r what the frame computed.
TrackRoundTrip(g, t, stored, r, kb) ==
    LET n == Len(kb.keys)
        same_caret == /\ r.caret /\ stored.tag = "Capturing"
                      /\ stored.sel.start = stored.sel.end
                      /\ r.idx = stored.sel.start
    IN  IF r.panic # "no" THEN NoGesture
        ELSE IF kb.entered # <<>>
        THEN IF r.caret /\ n <= Len(kb.entered[1])
                /\ r.cursor_x + SumWidths(FontSizeDefault, kb.entered[1])
                       < TextBoxFrameW + (TextBoxDimW - 2 * TextBoxFrameW)
                             - TEXT_PADDING
             THEN [phase |-> IF n = Len(kb.entered[1]) THEN "done" ELSE "owing",
                   text0 |-> t, idx0 |-> r.idx, fragment |-> kb.entered[1],
                   owed |-> Len(kb.entered[1]) - n, frames |-> 1]
             ELSE NoGesture
        ELSE IF g.phase = "owing" /\ same_caret /\ n <= g.owed
        THEN [g EXCEPT !.owed = @ - n,
                       !.frames = IF n > 0 THEN @ + 1 ELSE @,
                       !.phase = IF g.owed = n THEN "done" ELSE "owing"]
        ELSE NoGesture

\* what a frame began with and was given: the text and the caret before
\* the keyboard processing, the number of Backspaces pressed, the text
\* entered
RoundTripObs(t, r, kb) ==
    IF r.caret
    THEN [kind |-> "RoundTrip", done |-> r.panic = "no", caret |-> TRUE,
          text0 |-> t, idx |-> r.idx, backspaces |-> Len(kb.keys),
          entered |-> kb.entered]
    ELSE [kind |-> "RoundTrip", done |-> r.panic = "no", caret |-> FALSE]

\* a frame of the text box with pointer, Backspaces and entered text
RoundTripFrame ==
    \E mouse \in TextBoxMice, kb \in Keyboards(BackspaceSeqs, OneFragmentTexts) :
        /\ Len(text) <= MaxTextLen
        /\ TextBoxDraw(TextBoxId, TextBoxCfg(kb), TextBoxInput(mouse, kb))
        /\ \E got \in {get_state(widgets, TextBoxId, text_box_default)} :
              \E r \in {TextBoxFrameResult(got.state, text, TextBoxCfg(kb),
                                            TextBoxInput(mouse, kb))} :
                  /\ obs' = RoundTripObs(text, r, kb)
                  /\ gesture' = TrackRoundTrip(gesture, text, got.state, r, kb)

NextRoundTrip == RoundTripFrame

SpecRoundTrip == Init /\ [][NextRoundTrip]_vars

----------------------------------------------------------------------------
(* Specification of one identifier drawn with varying options, as a toggle
   or as a text box *)

\* the identifier drawn
OptionsId == 1

\* the configurations that differ from cfg in one option: the font size,
\* the frame width, the callback
OtherCfgs(cfg) ==
    {[cfg EXCEPT !.font_size = 2 * FontSizeDefault],
     [cfg EXCEPT !.frame_w = @ + 1]}
        \cup {[cfg EXCEPT !.maybe_callback = c] :
                  c \in {"None", "Clear"} \ {cfg.maybe_callback}}

\* what a frame persisted compared with what the same frame would have
\* persisted from the same stored state, text and input with the
\* configuration other
OptionsObs(cfg, other, in, r, r2) ==
    [kind |-> "Options", done |-> r.panic = "no" /\ r2.panic = "no",
     same_font_size |-> other.font_size = cfg.font_size,
     same_frame_w |-> other.frame_w = cfg.frame_w,
     same_callback |-> other.maybe_callback = cfg.maybe_callback,
     return_pressed |-> "Return" \in Range(in.keys),
     same_final_state |-> r.final_state = r2.final_state]

\* frames with at most one key, or with one character entered
OptionsKeyboards ==
    Keyboards(KeySeqsUpTo(1), {<<>>}) \cup Keyboards({<<>>}, OneCharTexts)

\* a frame of the text box; a key arrives only while the button is up
TextBoxOptionsFrame ==
    \E mouse \in TextBoxMice, kb \in OptionsKeyboards :
        \E other \in OtherCfgs(TextBoxCfg(kb)) :
            /\ kb.keys # <<>> => mouse.left = "Up"
            /\ Len(text) <= MaxTextLen
            /\ TextBoxDraw(OptionsId, TextBoxCfg(kb), TextBoxInput(mouse, kb))
            /\ \E got \in {get_state(widgets, OptionsId, text_box_default)} :
                  obs' = IF got.ok
                         THEN OptionsObs(TextBoxCfg(kb), other,
                                  TextBoxInput(mouse, kb),
                                  TextBoxFrameResult(got.state, text, TextBoxCfg(kb),
                                                     TextBoxInput(mouse, kb)),
                                  TextBoxFrameResult(got.state, text, other,
                                                     TextBoxInput(mouse, kb)))
                         ELSE [kind |-> "Options", done |-> FALSE,
                               calls |-> <<>>]
            /\ UNCHANGED gesture

\* a frame of the toggle with any value, with and without callback
ToggleOptionsFrame ==
    \E value \in BOOLEAN, maybe_callback \in {"None", "Some"}, mouse \in ToggleMice :
        /\ ToggleDraw(OptionsId, value, maybe_callback, mouse)
        /\ UNCHANGED gesture

NextOptions == TextBoxOptionsFrame \/ ToggleOptionsFrame

SpecOptions == Init /\ [][NextOptions]_vars

----------------------------------------------------------------------------
(* Specification of one text box with a commit callback *)

CommitKeys == {"Backspace", "Right", "Return"}

\* the key presses of one frame, each key pressed at most once
CommitKeySeqs ==
    {ks \in UNION {[1..k -> CommitKeys] : k \in 0..MaxKeys} :
        \A i, j \in DOMAIN ks : ks[i] = ks[j] => i = j}

\* what a frame began with, was given and called back: the state
\* get_new_state gave, the text and the caret before the keyboard
\* processing, the keys, the text entered and whether it passed the width
\* test, the callback configured and the buffers it was invoked with
CommitObs(t, r, kb) ==
    [kind |-> "Commit", done |-> r.panic = "no", caret |-> r.caret,
     new_state |-> r.new_state, text0 |-> t, idx |-> IF r.caret THEN r.idx ELSE 0,
     fits |-> r.caret /\ kb.entered # <<>>
                 /\ r.cursor_x + SumWidths(FontSizeDefault, kb.entered[1])
                      < TextX + TextRoom,
     keys |-> kb.keys, entered |-> kb.entered,
     maybe_callback |-> kb.maybe_callback, calls |-> r.calls]

\* the pointer resting on the start of the text with the button up
RestingMouse == [pos |-> <<TextX, TextBoxFrameW>>, left |-> "Up"]

\* a frame of the text box with pointer, keys, entered text and callback;
\* keys and entered text arrive only while the pointer rests, and several
\* keys with no other text than the character a
CommitFrame ==
    \E mouse \in TextBoxMice, kb \in Keyboards(CommitKeySeqs, OneCharTexts) :
        /\ (kb.keys # <<>> \/ kb.entered # <<>>) => mouse = RestingMouse
        /\ Len(kb.keys) > 1 => kb.entered \in {<<>>, <<<<"a">>>>}
        /\ Len(text) <= MaxTextLen
        /\ TextBoxDraw(TextBoxId, TextBoxCfg(kb), TextBoxInput(mouse, kb))
        /\ \E got \in {get_state(widgets, TextBoxId, text_box_default)} :
              obs' = CommitObs(text,
                         TextBoxFrameResult(got.state, text, TextBoxCfg(kb),
                                            TextBoxInput(mouse, kb)),
                         kb)
        /\ UNCHANGED gesture

NextCommit == CommitFrame

SpecCommit == Init /\ [][NextCommit]_vars

----------------------------------------------------------------------------
(* Specification of one text box pressed, dragged and released *)

\* frames with at most one key, or with one character entered
CaptureKeyboards == OptionsKeyboards

\* Bookkeeping of the press in progress: whether a frame with the button up
\* and the pointer over the box has been drawn, where the press began
\* ("outside": on no element; "char": on a character, from a highlighted
\* box or a released selection, nothing typed or pressed since) and the
\* index it began on.  The button is Up before the first frame.
TrackPress(g, prev, elem, mouse, quiet) ==
    LET g0 == IF g.phase = "idle"
              THEN [phase |-> "tracked", hovered |-> FALSE, press |-> "none",
                    pivot |-> 0]
              ELSE g
    IN  IF mouse.left = "Up"
        THEN [g0 EXCEPT !.hovered = @ \/ elem.tag # "Nill",
                        !.press = "none", !.pivot = 0]
        ELSE IF g0.press = "none"
        THEN IF elem.tag = "Nill"
             THEN [g0 EXCEPT !.press = "outside"]
             ELSE IF /\ elem.tag = "Char" /\ quiet
                     /\ \/ prev = Uncaptured("Highlighted")
                        \/ prev.tag = "Capturing" /\ prev.sel.anchor = "None"
             THEN [g0 EXCEPT !.press = "char", !.pivot = elem.idx]
             ELSE [g0 EXCEPT !.press = "other"]
        ELSE IF g0.press = "char" /\ ~quiet
        THEN [g0 EXCEPT !.press = "other", !.pivot = 0]
        ELSE g0

\* what a frame read: the stored state, the hit element, the button
CaptureObs(state, r, mouse) ==
    [kind |-> "Capture", done |-> r.panic = "no", prev |-> state,
     elem |-> r.elem, left |-> mouse.left]

\* a frame of the text box with pointer and keyboard
CaptureFrame ==
    \E mouse \in TextBoxMice, kb \in CaptureKeyboards :
        /\ Len(text) <= MaxTextLen
        /\ TextBoxDraw(TextBoxId, TextBoxCfg(kb), TextBoxInput(mouse, kb))
        /\ \E got \in {get_state(widgets, TextBoxId, text_box_default)} :
             \E r \in {TextBoxFrameResult(got.state, text, TextBoxCfg(kb),
                                          TextBoxInput(mouse, kb))} :
                /\ obs' = CaptureObs(got.state, r, mouse)
                /\ gesture' = TrackPress(gesture, got.state, r.elem, mouse,
                                         kb.keys = <<>> /\ kb.entered = <<>>)

NextCapture == CaptureFrame

SpecCapture == Init /\ [][NextCapture]_vars

----------------------------------------------------------------------------
(* Specification of the pure functions of text_box.rs called on their own *)

\* largest index handed to Selection::from_range
MaxIdx == 4

\* the texts measured: every text of up to MaxTextLen characters
MeasuredTexts == UNION {[1..n -> Chars] : n \in 0..MaxTextLen}

\* the pointer x: from left of the text start to right of the widest text
PointerXs == (TextX - 1)..(TextX + 2 * MaxTextLen + 1)

\* Selection::from_range called with a pair and with the pair swapped
FromRange ==
    \E a \in 0..MaxIdx, b \in 0..MaxIdx :
        /\ obs' = [kind |-> "from_range", a |-> a, b |-> b,
                   ab |-> from_range(a, b), ba |-> from_range(b, a)]
        /\ UNCHANGED <<widgets, places, text, panicked, gesture>>

\* closest_idx called with a pointer x and with the next x to its right
ClosestIdx ==
    \E t \in MeasuredTexts, x \in PointerXs :
        /\ obs' = [kind |-> "closest_idx", t |-> t, x |-> x,
                   text_w |-> label_width(FontSizeDefault, t),
                   hit |-> closest_idx(<<x, 0>>, TextX,
                               label_width(FontSizeDefault, t), FontSizeDefault, t),
                   right |-> closest_idx(<<x + 1, 0>>, TextX,
                               label_width(FontSizeDefault, t), FontSizeDefault, t)]
        /\ UNCHANGED <<widgets, places, text, panicked, gesture>>

\* cursor_position called with an index, closest_idx with the x it returned
CursorPosition ==
    \E t \in MeasuredTexts :
        \E idx \in 0..Len(t) :
            \E cp \in {cursor_position(idx, TextX, FontSizeDefault, t)} :
                /\ obs' = [kind |-> "cursor_position", t |-> t, idx |-> idx,
                           cp |-> cp,
                           back |-> closest_idx(<<cp[2], 0>>, TextX,
                                        label_width(FontSizeDefault, t),
                                        FontSizeDefault, t)]
                /\ UNCHANGED <<widgets, places, text, panicked, gesture>>

NextFunctions == FromRange \/ ClosestIdx \/ CursorPosition

SpecFunctions == Init /\ [][NextFunctions]_vars

----------------------------------------------------------------------------
(* Specification of the store functions of widget_fns! called on their own *)

\* the widget states handed to set_state
StoredWidgets ==
    {ToggleWidget(st) : st \in ToggleStates}
        \cup {TextBoxWidget(Uncaptured(u)) : u \in {"Normal", "Highlighted"}}
        \cup {TextBoxWidget(Capturing(from_index(0)))}

\* the default() of the two instances of widget_fns!
Defaults == {toggle_default, text_box_default}

\* get_state of one of the two widget modules
GetState ==
    \E default \in Defaults, ui_id \in UIIDs :
        /\ panicked = "no"
        /\ \E got \in {get_state(widgets, ui_id, default)} :
              /\ widgets' = got.widgets
              /\ panicked' = IF got.ok THEN "no" ELSE "get_state"
              /\ obs' = [kind |-> "get_state", ui_id |-> ui_id,
                         requested |-> default.kind]
        /\ UNCHANGED <<places, text, gesture>>

\* set_state of one of the two widget modules
SetState ==
    \E default \in Defaults, ui_id \in UIIDs, new_state \in StoredWidgets :
        /\ panicked = "no"
        /\ \E res \in {set_state(widgets, ui_id, default, new_state)} :
              /\ widgets' = res.widgets
              /\ panicked' = IF res.ok THEN "no" ELSE "set_state"
              /\ places' = IF res.ok
                           THEN set_place(places, ui_id, TogglePos, ToggleDim)
                           ELSE places
              /\ obs' = [kind |-> "set_state", ui_id |-> ui_id,
                         stored |-> Ui_get_widget(widgets, ui_id, default)[ui_id],
                         new_state |-> new_state]
        /\ UNCHANGED <<text, gesture>>

NextStore == GetState \/ SetState

SpecStore == Init /\ [][NextStore]_vars

----------------------------------------------------------------------------
(* Claims about the toggle, checked under SpecToggle *)

ToggleDrawn == obs.kind = "Toggle" /\ obs.done

\* The toggle transition table as the specification words it.
ToggleTable(is_over, prev, button) ==
    CASE is_over /\ prev = "Normal" /\ button = "Down" -> "Normal"
      [] is_over /\ prev \in {"Highlighted", "Clicked"} /\ button = "Down" -> "Clicked"
      [] is_over /\ button = "Up" -> "Highlighted"
      [] ~is_over /\ prev = "Clicked" /\ button = "Down" -> "Clicked"
      [] OTHER -> "Normal"

\* C1: for every (is_over, prev, button) the state get_new_state returns is
\* the one the toggle table gives, in every frame drawn and for every
\* combination of the three inputs.
C1_ToggleTable ==
    /\ ToggleDrawn =>
          obs.new_state = ToggleTable(obs.is_over, obs.prev, obs.mouse.left)
    /\ \A is_over \in BOOLEAN, prev \in ToggleStates, button \in ButtonStates :
          toggle_get_new_state(is_over, prev, [left |-> button])
              = ToggleTable(is_over, prev, button)

\* a frame that keeps a click alive while the pointer is dragged off
C1_Witness ==
    /\ ToggleDrawn /\ ~obs.is_over /\ obs.prev = "Clicked"
    /\ obs.mouse.left = "Down" /\ obs.new_state = "Clicked"

\* C3: with a callback configured, the callback is invoked exactly on
\* (is_over, prev Clicked, new Highlighted), and its argument is the negation
\* of the toggle's value.
C3_CallbackIff ==
    (ToggleDrawn /\ obs.maybe_callback = "Some") =>
        /\ obs.cb.called <=>
              (obs.is_over /\ obs.prev = "Clicked" /\ obs.new_state = "Highlighted")
        /\ obs.cb.called => obs.cb.arg = ~obs.value

C3_Witness ==
    /\ ToggleDrawn /\ obs.maybe_callback = "Some" /\ obs.cb.called
    /\ obs.value = FALSE /\ obs.cb.arg = TRUE

\* a press released in the frame just drawn, with a callback configured
ReleasedWithCallback ==
    /\ ToggleDrawn /\ gesture.phase = "released" /\ obs.maybe_callback = "Some"

\* C4 as claimed: every press over the toggle followed by a release over the
\* toggle invokes the callback exactly once, whatever state the press found.
C4_Original ==
    (ReleasedWithCallback /\ gesture.press_over /\ gesture.release_over) =>
        gesture.calls = 1

\* C4 as amended: a press over the toggle followed by a release over it
\* invokes the callback exactly once, with the negated value, when the press
\* found the toggle Highlighted, and not at all when it found it Normal (a
\* fresh toggle, or a pointer that arrived in the frame of the press).
C4_PressRelease ==
    (ReleasedWithCallback /\ gesture.press_over /\ gesture.release_over) =>
        /\ gesture.press_prev \in {"Normal", "Highlighted"}
        /\ gesture.press_prev = "Highlighted" =>
              (gesture.calls = 1 /\ obs.cb.called /\ obs.cb.arg = ~obs.value)
        /\ gesture.press_prev = "Normal" => gesture.calls = 0

\* hover, press over, release over, on a toggle whose value is false
C4_Witness ==
    /\ ReleasedWithCallback /\ gesture.press_over /\ gesture.release_over
    /\ gesture.press_prev = "Highlighted" /\ gesture.calls = 1
    /\ obs.value = FALSE /\ obs.cb.arg = TRUE

\* C5: a press over the toggle released elsewhere, and a press elsewhere
\* released anywhere, invoke the callback zero times.
C5_NoCallback ==
    (ToggleDrawn /\ gesture.phase = "released"
        /\ (~gesture.press_over \/ ~gesture.release_over)) =>
        gesture.calls = 0

\* a press elsewhere dragged onto the toggle and released over it
C5_Witness ==
    /\ ReleasedWithCallback /\ ~gesture.press_over /\ gesture.release_over
    /\ obs.prev = "Normal" /\ gesture.calls = 0

----------------------------------------------------------------------------
(* Claims about the text box transitions and the visual state, checked
   under SpecWidgets *)

TextBoxDrawn == obs.kind = "TextBox" /\ obs.done

\* Selection::from_index and Selection::from_range as the specification
\* words them
TableFromIndex(i) == [anchor |-> "Start", start |-> i, end |-> i]

TableFromRange(a, b) ==
    IF a < b THEN [anchor |-> "Start", start |-> a, end |-> b]
    ELSE [anchor |-> "End", start |-> b, end |-> a]

NoRow == [tag |-> "NoRow"]

\* The text-entry transition table, row by row; NoRow where it has none.
TextBoxTable(prev, elem, button) ==
    IF prev.tag = "Capturing"
    THEN IF button = "Up" THEN Capturing([prev.sel EXCEPT !.anchor = "None"])
         ELSE IF prev.sel.anchor = "None"
         THEN CASE elem.tag = "Nill" -> Uncaptured("Normal")
                [] elem.tag = "Rect" -> Capturing(TableFromIndex(0))
                [] elem.tag = "Char" -> Capturing(TableFromIndex(elem.idx))
         ELSE IF elem.tag = "Char"
         THEN IF prev.sel.anchor = "Start"
              THEN Capturing(TableFromRange(prev.sel.start, elem.idx))
              ELSE Capturing(TableFromRange(prev.sel.end, elem.idx))
         ELSE prev
    ELSE IF button = "Up"
         THEN IF elem.tag = "Nill" THEN Uncaptured("Normal")
              ELSE IF prev.u = "Normal" THEN Uncaptured("Highlighted") ELSE prev
         ELSE IF prev.u = "Normal"
              THEN IF elem.tag = "Nill" THEN Uncaptured("Normal") ELSE prev
              ELSE CASE elem.tag = "Nill" -> NoRow
                     [] elem.tag = "Rect" -> Capturing(TableFromIndex(0))
                     [] elem.tag = "Char" -> Capturing(TableFromIndex(elem.idx))

\* C2: in every text box frame the state get_new_state returns for
\* (previous state, hit element, button) is the one the text-entry
\* transition table gives for that combination.
C2_TextBoxTable ==
    (TextBoxDrawn /\ TextBoxTable(obs.prev, obs.elem, obs.left) # NoRow) =>
        obs.new_state = TextBoxTable(obs.prev, obs.elem, obs.left)

\* a drag to the left of the caret the press put down: from_range swaps
C2_Witness ==
    /\ TextBoxDrawn /\ obs.prev.tag = "Capturing" /\ obs.prev.sel.anchor = "Start"
    /\ obs.left = "Down" /\ obs.elem.tag = "Char"
    /\ obs.elem.idx < obs.prev.sel.start
    /\ obs.new_state = Capturing([anchor |-> "End", start |-> obs.elem.idx,
                                  end |-> obs.prev.sel.start])

\* C9 as claimed: Capturing and Clicked give the active visual state,
\* Highlighted gives the highlighted one, everything else the normal one.
C9_Original ==
    /\ ToggleDrawn =>
          obs.rect_state = (CASE obs.new_state = "Clicked" -> "Clicked"
                              [] obs.new_state = "Highlighted" -> "Highlighted"
                              [] OTHER -> "Normal")
    /\ TextBoxDrawn =>
          obs.rect_state =
              (IF obs.new_state.tag = "Capturing" THEN "Clicked"
               ELSE IF obs.new_state.u = "Highlighted" THEN "Highlighted"
               ELSE "Normal")

\* C9 as amended: the toggle maps Clicked to the active visual state and
\* Highlighted to the highlighted one; the text box maps
\* Uncaptured(Highlighted) to the highlighted one and both Capturing and
\* Uncaptured(Normal) to the normal one.
C9_RectangleState ==
    /\ ToggleDrawn =>
          obs.rect_state = (CASE obs.new_state = "Clicked" -> "Clicked"
                              [] obs.new_state = "Highlighted" -> "Highlighted"
                              [] OTHER -> "Normal")
    /\ TextBoxDrawn =>
          obs.rect_state =
              (IF obs.new_state.tag = "Uncaptured" /\ obs.new_state.u = "Highlighted"
               THEN "Highlighted" ELSE "Normal")

\* a text box frame that ends Capturing and is drawn in the normal state
C9_Witness ==
    /\ TextBoxDrawn /\ obs.new_state.tag = "Capturing"
    /\ obs.rect_state = "Normal"

----------------------------------------------------------------------------
(* Claims about the indices of the text box, checked under SpecTextBox *)

TextBoxState == widgets[TextBoxId].state

IsCapturing ==
    widgets[TextBoxId].kind = "TextBox" /\ TextBoxState.tag = "Capturing"

\* C6: no frame panics in its index arithmetic, and every caret or
\* selection bound persisted lies between 0 and the length of the text.
C6_IndexInRange ==
    /\ panicked \notin {"char_at", "overflow", "slice"}
    /\ IsCapturing =>
          /\ 0 <= TextBoxState.sel.start
          /\ TextBoxState.sel.end <= Len(text)

\* C7: every Selection from_index and from_range construct, and every
\* Selection persisted in a Capturing state, has start <= end.
C7_SelectionOrdered ==
    /\ IsCapturing => TextBoxState.sel.start <= TextBoxState.sel.end
    /\ \A a \in 0..MaxTextLen, b \in 0..MaxTextLen :
          /\ from_range(a, b).start <= from_range(a, b).end
          /\ from_index(a).start <= from_index(a).end

\* a selection persisted after a drag to the left: built from an unordered
\* pair, stored ordered
C7_Witness ==
    /\ IsCapturing /\ TextBoxState.sel.anchor = "End"
    /\ TextBoxState.sel.start < TextBoxState.sel.end

----------------------------------------------------------------------------
(* Claim about typed text, checked under SpecTyping *)

\* C10: in a frame that begins with a caret at idx and whose fragments all
\* fit, the text afterwards is the old text with the fragments spliced in
\* at idx in entry order, and the persisted caret is idx plus their length.
C10_Insertion ==
    (obs.kind = "Typing" /\ obs.done /\ obs.caret /\ obs.fit) =>
        /\ text = Splice(obs.text0, obs.idx, Flatten(obs.entered))
        /\ TextBoxState.sel.start = obs.idx + Len(Flatten(obs.entered))
        /\ TextBoxState.sel.end = obs.idx + Len(Flatten(obs.entered))

\* the right edge of the width budget: the inner padded width of the box
BudgetLimit == TextBoxFrameW + (TextBoxDimW - 2 * TextBoxFrameW) - TEXT_PADDING

\* the caret x of the observed typing frame advanced by its first j fragments
CaretXAfter(j) ==
    obs.cursor_x + SumWidths(FontSizeDefault, Flatten(SubSeq(obs.entered, 1, j)))

\* fragment j of the observed typing frame is the first that does not fit,
\* and it exceeds the budget
FirstOverBudget(j) ==
    /\ CaretXAfter(j) > BudgetLimit
    /\ \A i \in 1..(j - 1) : CaretXAfter(i) < BudgetLimit

TypingDrawn == obs.kind = "Typing" /\ obs.done /\ obs.caret

\* C11: when fragment j of a frame would carry the caret x beyond the inner
\* padded width, the buffer and the caret hold exactly the fragments before
\* j: fragment j and every later one are left out, the earlier ones stay.
C11_WidthBudget ==
    TypingDrawn =>
        \A j \in 1..Len(obs.entered) :
            FirstOverBudget(j) =>
                LET kept == Flatten(SubSeq(obs.entered, 1, j - 1))
                IN  /\ Len(text) = Len(obs.text0) + Len(kept)
                    /\ TextBoxState.sel.start = obs.idx + Len(kept)
                    /\ TextBoxState.sel.end = obs.idx + Len(kept)
                    /\ j = 1 => text = obs.text0
                    /\ j = 2 => text = Splice(obs.text0, obs.idx, obs.entered[1])

\* two fragments entered, the first kept and the second over the budget
C11_Witness ==
    /\ TypingDrawn /\ Len(obs.entered) = 2 /\ FirstOverBudget(2)
    /\ text = Splice(obs.text0, obs.idx, obs.entered[1])

----------------------------------------------------------------------------
(* Claim about the round trip, checked under SpecRoundTrip *)

\* C12: once a fragment inserted at a caret has been answered by one
\* Backspace per character, in the same frame or in later ones, the text
\* and the caret are the ones the insertion found.
C12_RoundTrip ==
    (obs.kind = "RoundTrip" /\ obs.done /\ gesture.phase = "done") =>
        /\ text = gesture.text0
        /\ IsCapturing
        /\ TextBoxState.sel.start = gesture.idx0
        /\ TextBoxState.sel.end = gesture.idx0

----------------------------------------------------------------------------
(* Claims about the pure functions, checked under SpecFunctions *)

FromRangeCalled == obs.kind = "from_range"

Max(a, b) == IF a > b THEN a ELSE b

\* from_range(a, b) and from_range(b, a) span min(a, b) .. max(a, b), and
\* from_range(a, b) is anchored at Start exactly when a < b
FromRangeBounds ==
    /\ obs.ab.start = Min(obs.a, obs.b) /\ obs.ba.start = Min(obs.a, obs.b)
    /\ obs.ab.end = Max(obs.a, obs.b) /\ obs.ba.end = Max(obs.a, obs.b)
    /\ obs.ab.anchor = (IF obs.a < obs.b THEN "Start" ELSE "End")

\* C13 as claimed: the bounds are identical and the anchor flips whenever
\* the arguments are swapped.
C13_Original ==
    FromRangeCalled => (FromRangeBounds /\ obs.ab.anchor # obs.ba.anchor)

\* C13 as amended: the bounds are identical; the anchor flips when the
\* arguments differ, and is End for both when they are equal.
C13_FromRangeSwap ==
    FromRangeCalled =>
        /\ FromRangeBounds
        /\ obs.a # obs.b => obs.ab.anchor # obs.ba.anchor
        /\ obs.a = obs.b => (obs.ab.anchor = "End" /\ obs.ba = obs.ab)

\* an unordered pair: swapped bounds, anchor End, and Start for the swap
C13_Witness ==
    /\ FromRangeCalled /\ obs.a > obs.b
    /\ obs.ab = [anchor |-> "End", start |-> obs.b, end |-> obs.a]
    /\ obs.ba.anchor = "Start"

----------------------------------------------------------------------------
(* Claim about the lifecycle of the stored states, checked under
   SpecWidgets *)

\* the state a draw of ui_id starts from: the stored one, the default of
\* the kind before the first draw
StartState(ui_id, default) ==
    IF widgets[ui_id] = NoWidget THEN default.state ELSE widgets[ui_id].state

\* C16: a draw starts from the default state of its kind the first time
\* and from the state the previous draw of its identifier wrote afterwards,
\* leaves the state it computed in the store, and leaves the state of the
\* other identifier alone.
C16_Lifecycle ==
    [][/\ (obs'.kind = "Toggle" /\ obs'.done) =>
             /\ obs'.prev = StartState(ToggleId, toggle_default)
             /\ widgets'[ToggleId] = ToggleWidget(obs'.new_state)
             /\ widgets'[TextBoxId] = widgets[TextBoxId]
       /\ (obs'.kind = "TextBox" /\ obs'.done) =>
             /\ obs'.prev = StartState(TextBoxId, text_box_default)
             /\ widgets'[TextBoxId] = TextBoxWidget(obs'.final_state)
             /\ widgets'[ToggleId] = widgets[ToggleId]]_vars

\* a text box frame that starts from the Capturing state an earlier frame
\* wrote, after the toggle has been drawn to Highlighted in between
C16_Witness ==
    /\ TextBoxDrawn /\ obs.prev.tag = "Capturing"
    /\ widgets[ToggleId] = ToggleWidget("Highlighted")
    /\ widgets[TextBoxId] = TextBoxWidget(obs.final_state)

----------------------------------------------------------------------------
(* Claim about the options, checked under SpecOptions *)

OptionsDrawn == obs.kind = "Options" /\ obs.done

\* the state the toggle persists is the one get_new_state gives for the
\* stored state and the mouse, whatever the value and the callback
ToggleIgnoresOptions ==
    ToggleDrawn =>
        widgets[obs.ui_id] =
            ToggleWidget(toggle_get_new_state(
                rectangle_is_over(TogglePos, obs.mouse.pos, ToggleDim),
                obs.prev, obs.mouse))

\* C17 as claimed: two runs of a frame that differ in one option persist
\* the same state.
C17_Original ==
    /\ ToggleIgnoresOptions
    /\ OptionsDrawn => obs.same_final_state

\* C17 as amended: the toggle persists the same state whatever its value
\* and callback; the text box persists the same state with and without a
\* callback in every frame without a Return key press.
C17_Options ==
    /\ ToggleIgnoresOptions
    /\ (OptionsDrawn /\ ~obs.return_pressed
           /\ obs.same_font_size /\ obs.same_frame_w) =>
          obs.same_final_state

\* a caret in a text of one character, persisted alike with and without a
\* callback by a frame without Return
C17_Witness ==
    /\ OptionsDrawn /\ ~obs.return_pressed /\ ~obs.same_callback
    /\ widgets[OptionsId] =
          TextBoxWidget(Capturing([anchor |-> "None", start |-> 1, end |-> 1]))
    /\ text = <<"a">>
    /\ obs.same_final_state

\* the identifier holds a widget of another kind than the one the step
\* draws
Collision ==
    /\ panicked = "no"
    /\ \/ widgets[OptionsId].kind = "TextBox" /\ obs'.kind = "Toggle"
       \/ widgets[OptionsId].kind = "Toggle" /\ obs'.kind = "Options"

\* C25: a draw with an identifier that holds a widget of another kind
\* stops at the state lookup: no callback is invoked, and the text, the
\* stored widgets and the placements are as before.
C25_Collision ==
    [][Collision =>
          /\ panicked' = "get_state"
          /\ ~obs'.done
          /\ obs'.kind = "Toggle" => ~obs'.cb.called
          /\ obs'.kind = "Options" => obs'.calls = <<>>
          /\ UNCHANGED <<widgets, places, text>>]_vars

\* a toggle was drawn with the identifier of a capturing text box that
\* holds a character
C25_Witness ==
    /\ panicked = "get_state"
    /\ obs.kind = "Toggle" /\ ~obs.done
    /\ widgets[OptionsId].kind = "TextBox"
    /\ widgets[OptionsId].state.tag = "Capturing"
    /\ text # <<>>

----------------------------------------------------------------------------
(* Claims about the pure functions, checked under SpecFunctions *)

ClosestIdxCalled == obs.kind = "closest_idx"

\* twice the midpoint of character i (1-based) of t laid out from TextX
Midpoint2(t, i) ==
    2 * (TextX + SumWidths(FontSizeDefault, SubSeq(t, 1, i - 1)))
        + get_character_w(FontSizeDefault, t[i])

\* the 0-based index of the first character of t whose midpoint is at or
\* after x, Len(t) when there is none
FirstMidpointAtOrAfter(t, x) ==
    IF \E i \in 1..Len(t) : Midpoint2(t, i) >= 2 * x
    THEN (CHOOSE i \in 1..Len(t) :
              /\ Midpoint2(t, i) >= 2 * x
              /\ \A j \in 1..(i - 1) : Midpoint2(t, j) < 2 * x) - 1
    ELSE Len(t)

\* C14: closest_idx does not decrease when the pointer moves right; left of
\* the text start it gives (0, text_x), right of every character
\* (len, text_x + text_w), and otherwise the index of the first character
\* whose midpoint is at or after the pointer.
C14_ClosestIdx ==
    ClosestIdxCalled =>
        /\ obs.hit[1] <= obs.right[1]
        /\ obs.x = TextX - 1 => obs.hit = <<0, TextX>>
        /\ obs.x = TextX + obs.text_w + 1 =>
              obs.hit = <<Len(obs.t), TextX + obs.text_w>>
        /\ obs.x >= TextX => obs.hit[1] = FirstMidpointAtOrAfter(obs.t, obs.x)

\* a pointer on the second half of the first of two characters: index 1
C14_Witness ==
    /\ ClosestIdxCalled /\ Len(obs.t) = 2 /\ obs.t[1] = "b"
    /\ obs.x = TextX + 2 /\ obs.hit = <<1, TextX + 2>>

CursorPositionCalled == obs.kind = "cursor_position"

\* C15 as claimed: closest_idx at the x cursor_position returns for idx
\* gives idx again, whatever the advances of the glyphs.
C15_Original == CursorPositionCalled => obs.back[1] = obs.idx

\* C15 as amended: closest_idx at the x cursor_position returns for idx
\* gives idx again when idx is 0 or the character before idx has a positive
\* advance; after glyphs without advance it gives the smallest index that
\* has the same x.
C15_CursorRoundTrip ==
    CursorPositionCalled =>
        /\ obs.cp[1] = obs.idx
        /\ (obs.idx = 0 \/ get_character_w(FontSizeDefault, obs.t[obs.idx]) > 0)
              => obs.back[1] = obs.idx
        /\ obs.back[1] <= obs.idx
        /\ cursor_position(obs.back[1], TextX, FontSizeDefault, obs.t)[2] = obs.cp[2]
        /\ \A i \in 0..(obs.back[1] - 1) :
              cursor_position(i, TextX, FontSizeDefault, obs.t)[2] < obs.cp[2]

\* the caret at the end of a text of two glyphs with advance is found again
C15_Witness ==
    /\ CursorPositionCalled /\ obs.t = <<"a", "b">> /\ obs.idx = 2
    /\ obs.cp = <<2, TextX + 3>> /\ obs.back[1] = 2

\* t after n Backspaces from the caret idx, each removing the character
\* before the caret it finds and moving the caret back by one
AfterBackspaces(t, idx, n) ==
    SubSeq(t, 1, idx - Min(n, idx)) \o SubSeq(t, idx + 1, Len(t))

\* C18: every Backspace of a frame removes the character before the
\* current caret and moves the caret back by one, as long as the caret is
\* above 0; the other characters keep their order.
C18_Backspace ==
    (obs.kind = "RoundTrip" /\ obs.done /\ obs.caret /\ obs.entered = <<>>) =>
        /\ text = AfterBackspaces(obs.text0, obs.idx, obs.backspaces)
        /\ TextBoxState.sel.start = obs.idx - Min(obs.backspaces, obs.idx)
        /\ TextBoxState.sel.end = obs.idx - Min(obs.backspaces, obs.idx)

----------------------------------------------------------------------------
(* Claims about the commit callback and the key order, checked under
   SpecCommit *)

CommitDrawn == obs.kind = "Commit" /\ obs.done

\* the number of Return presses among the keys
Returns(keys) == Cardinality({i \in DOMAIN keys : keys[i] = "Return"})

\* C19: the callback is invoked only for a Return processed at a caret with
\* a callback configured and a non-empty buffer, once for a single Return
\* on a non-empty buffer, never with an empty buffer; and after a frame
\* that invoked it the persisted caret is at most the length of the text.
C19_Commit ==
    CommitDrawn =>
        /\ (~obs.caret \/ obs.maybe_callback = "None"
               \/ "Return" \notin Range(obs.keys)) => obs.calls = <<>>
        /\ Len(obs.calls) <= Returns(obs.keys)
        /\ \A i \in DOMAIN obs.calls : obs.calls[i] # <<>>
        /\ (obs.caret /\ obs.maybe_callback # "None" /\ obs.keys = <<"Return">>
               /\ obs.entered = <<>> /\ obs.text0 # <<>>) =>
              obs.calls = <<obs.text0>>
        /\ obs.calls # <<>> =>
              (IsCapturing /\ TextBoxState.sel.end <= Len(text))

\* a frame at a caret with a callback, one fragment that fits or none, and
\* the given keys
KeysAtCaret(keys) ==
    /\ CommitDrawn /\ obs.caret /\ obs.maybe_callback # "None"
    /\ obs.keys = keys
    /\ obs.entered # <<>> => obs.fits

\* the text the frame began with, after the entered text went in
TextTyped == Splice(obs.text0, obs.idx, Flatten(obs.entered))

\* the entered text is in the buffer before any key is processed
TypedTextFirst ==
    (KeysAtCaret(<<"Return">>) /\ obs.entered # <<>>) => obs.calls = <<TextTyped>>

\* a Backspace pressed before a Return is processed before it
BackspaceThenReturn ==
    (KeysAtCaret(<<"Backspace", "Return">>) /\ obs.entered = <<>>
        /\ obs.idx > 0 /\ Len(obs.text0) > 1) =>
        obs.calls = <<AfterBackspaces(obs.text0, obs.idx, 1)>>

\* C20 as claimed: typed text first, then Backspace before Return whatever
\* the order of the two key presses in the list.
C20_Original ==
    /\ TypedTextFirst
    /\ BackspaceThenReturn
    /\ (KeysAtCaret(<<"Return", "Backspace">>) /\ obs.entered = <<>>
           /\ obs.idx > 0 /\ Len(obs.text0) > 1) =>
          obs.calls = <<AfterBackspaces(obs.text0, obs.idx, 1)>>

\* C20 as amended: typed text first, then the key presses in the order of
\* the list: a Return pressed before a Backspace commits the buffer
\* before the deletion, one pressed after it the buffer after the deletion.
C20_KeyOrder ==
    /\ TypedTextFirst
    /\ BackspaceThenReturn
    /\ (KeysAtCaret(<<"Return", "Backspace">>) /\ obs.entered = <<>>
           /\ obs.idx > 0 /\ Len(obs.text0) > 1) =>
          /\ obs.calls = <<obs.text0>>
          /\ obs.maybe_callback = "Keep" =>
                text = AfterBackspaces(obs.text0, obs.idx, 1)

\* Return then Backspace on a text of two characters: the callback saw both
C20_Witness ==
    /\ KeysAtCaret(<<"Return", "Backspace">>) /\ obs.entered = <<>>
    /\ obs.idx = 2 /\ obs.text0 = <<"a", "b">> /\ obs.maybe_callback = "Keep"
    /\ obs.calls = <<<<"a", "b">>>> /\ text = <<"a">>

\* the state computed for the frame is a caret
NewStateIsCaret ==
    /\ obs.new_state.tag = "Capturing"
    /\ obs.new_state.sel.start = obs.new_state.sel.end

\* C21: a frame whose new state is Uncaptured, or Capturing with a
\* non-empty selection, leaves the buffer as it was, invokes no callback
\* and persists the state get_new_state gave, whatever was typed or pressed.
C21_NoCaretNoEffect ==
    (CommitDrawn /\ ~NewStateIsCaret) =>
        /\ text = obs.text0
        /\ obs.calls = <<>>
        /\ TextBoxState = obs.new_state

\* a character, a Backspace and a Return with a clearing callback arrive
\* while two characters are selected
C21_Witness ==
    /\ CommitDrawn /\ ~NewStateIsCaret
    /\ obs.new_state.tag = "Capturing"
    /\ obs.new_state.sel.end - obs.new_state.sel.start = 2
    /\ obs.entered # <<>> /\ obs.keys = <<"Backspace", "Return">>
    /\ obs.maybe_callback = "Clear"
    /\ Len(text) = 2

----------------------------------------------------------------------------
(* Claims about entering, keeping and dragging a capture, checked under
   SpecCapture *)

CaptureDrawn == obs.kind = "Capture" /\ obs.done

\* C22: a text box enters Capturing only from Uncaptured(Highlighted) with
\* the button Down and the pointer over Rect or Char; a box that has not
\* seen a button-Up frame with the pointer over it is not capturing, and
\* neither is one whose press began outside, wherever it was dragged.
C22_EnterCapture ==
    CaptureDrawn =>
        /\ (obs.prev.tag = "Uncaptured" /\ IsCapturing) =>
              /\ obs.prev.u = "Highlighted"
              /\ obs.left = "Down"
              /\ obs.elem.tag \in {"Rect", "Char"}
        /\ ~gesture.hovered => ~IsCapturing
        /\ gesture.press = "outside" => ~IsCapturing

\* a press that began outside is over a character of a box that was
\* hovered before, and the box is not capturing
C22_Witness ==
    /\ CaptureDrawn /\ gesture.press = "outside" /\ gesture.hovered
    /\ obs.left = "Down" /\ obs.elem.tag = "Char" /\ obs.elem.idx = 1
    /\ text # <<>>
    /\ TextBoxState = Uncaptured("Normal")

\* a frame with the button down outside the control and no anchor stored
ReleasingFrame ==
    /\ obs.left = "Down" /\ obs.elem.tag = "Nill"
    /\ obs.prev.sel.anchor = "None"

\* C23: a frame drawn from a Capturing state persists a Capturing state
\* unless the button is Down, the pointer is on no element and the stored
\* anchor is None, and then it persists Uncaptured.
C23_KeepCapture ==
    (CaptureDrawn /\ obs.prev.tag = "Capturing") =>
        (IsCapturing <=> ~ReleasingFrame)

\* a selection of one character dragged out of the control is kept
C23_Witness ==
    /\ CaptureDrawn /\ obs.prev.tag = "Capturing"
    /\ obs.prev.sel.anchor = "End" /\ obs.prev.sel.start < obs.prev.sel.end
    /\ obs.left = "Down" /\ obs.elem.tag = "Nill"
    /\ IsCapturing /\ TextBoxState = obs.prev

\* C24: while a press that began on a character is held, the index it
\* began on is the start of an anchor-Start selection or the end of an
\* anchor-End selection, and after a frame over Char(i) the other bound
\* is i.
C24_DragPivot ==
    (CaptureDrawn /\ gesture.press = "char") =>
        /\ IsCapturing
        /\ TextBoxState.sel.anchor \in {"Start", "End"}
        /\ TextBoxState.sel.anchor = "Start" =>
              TextBoxState.sel.start = gesture.pivot
        /\ TextBoxState.sel.anchor = "End" =>
              TextBoxState.sel.end = gesture.pivot
        /\ obs.elem.tag = "Char" =>
              obs.elem.idx = IF TextBoxState.sel.anchor = "Start"
                             THEN TextBoxState.sel.end
                             ELSE TextBoxState.sel.start

\* a drag that began on index 1 and selected to the right crosses back to
\* index 0
C24_Witness ==
    /\ CaptureDrawn /\ gesture.press = "char" /\ gesture.pivot = 1
    /\ obs.prev = Capturing([anchor |-> "Start", start |-> 1, end |-> 2])
    /\ obs.elem = Char(0)
    /\ TextBoxState = Capturing([anchor |-> "End", start |-> 0, end |-> 1])

----------------------------------------------------------------------------
(* Claim about the store, checked under SpecStore *)

\* C8: set_state panics and leaves the stored state as it was whenever the
\* variant of the new state differs from the variant stored for the
\* identifier; when the variants match it replaces the stored state.
C8_SetStateChecked ==
    obs.kind = "set_state" =>
        IF obs.stored.kind # obs.new_state.kind
        THEN panicked = "set_state" /\ widgets[obs.ui_id] = obs.stored
        ELSE panicked = "no" /\ widgets[obs.ui_id] = obs.new_state

\* a Toggle state written to an identifier that holds a TextBox state
C8_Witness ==
    /\ obs.kind = "set_state" /\ obs.stored.kind = "TextBox"
    /\ obs.new_state.kind = "Toggle" /\ panicked = "set_state"
    /\ widgets[obs.ui_id].kind = "TextBox"

=============================================================================
